---- MODULE Spec2Model ----
(***************************************************************************)
(* BookRepository (src/src/adapters/repositories/book.ts): the mutating    *)
(* book operations create / replace / update / delete, each run under a    *)
(* mongoose session with a transaction, together with the helpers that     *)
(* validate the requested authors and maintain the authors' back           *)
(* references.  One operation is in flight at a time; every awaited call   *)
(* of an operation is one step, and every step that talks to the storage   *)
(* engine may fail.                                                        *)
(***************************************************************************)
EXTENDS Integers, Sequences, FiniteSets, TLC

\* ---- bounds -----------------------------------------------------------
NumAuthors == 3      \* author records 1..NumAuthors exist in AuthorModel
MaxLen == 2          \* longest authors list a request carries
MaxBooks == 2        \* book ids a request may name / the store may hold
MaxOps == 3          \* operations started in one behaviour

Authors == 1..NumAuthors
\* ids a request may carry: the existing authors and one id of no author
AuthorIds == 1..(NumAuthors + 1)
BookIds == 1..MaxBooks

AuthorLists == UNION {[1..n -> AuthorIds] : n \in 0..MaxLen}

\* ---- documents --------------------------------------------------------
\* A BookModel slot: exists = FALSE is "no document with this _id".
\* Of a book only the authors list is modelled: title, description, price and
\* numberOfPages are stored as given and no step of the repository reads them.
NoBook == [exists |-> FALSE, authors |-> <<>>]
BookDoc(authorsIds) == [exists |-> TRUE, authors |-> authorsIds]

AuthorName(a) == a + 100
NoRefs == [b \in BookIds |-> 0]

\* ICreateBook / IUpdateBook: authors (and, for update, title) are optional.
\* the authors field of a request is None (absent) or Some(list)
OptAuthorLists == {<<>>} \cup {<<s>> : s \in AuthorLists}
CreateData == [authors : OptAuthorLists]
UpdateData == [authors : OptAuthorLists]
NoData == [authors |-> <<>>]

Range(s) == {s[i] : i \in DOMAIN s}

\* ---- errors (errors.ts) -----------------------------------------------
NoError == [name |-> "none", resourceName |-> "", id |-> 0, errors |-> {}]
DataValidatorError(errors) ==
    [name |-> "ValidationError", resourceName |-> "", id |-> 0, errors |-> errors]
ResourceNotFoundError(resourceName, id) ==
    [name |-> "NotFoundError", resourceName |-> resourceName, id |-> id, errors |-> {}]
\* a failure raised by the storage engine / mongoose itself
StorageError == [name |-> "MongoError", resourceName |-> "", id |-> 0, errors |-> {}]
\* a failure raised by session.startTransaction() or session.abortTransaction()
TransactionError ==
    [name |-> "MongoTransactionError", resourceName |-> "", id |-> 0, errors |-> {}]

VARIABLES
    books,        \* BookModel collection, committed: BookIds -> book slot
    authors,      \* AuthorModel collection, committed: Authors -> [name, books]
    session,      \* the operation's ClientSession: state and uncommitted writes
    pc,           \* position of the operation in flight
    call,         \* the operation in flight (or the last one): kind, id, data
    oldDocument,  \* replace/update/delete: the book as read before the write
    document,     \* the book as written by the operation
    bookAuthors,  \* result of validateBookAuthors
    caught,       \* error caught by the operation's catch block
    authorWrites, \* authors whose record a step of this operation modified
    pre,          \* committed collections when the operation began
    nops,         \* operations started so far
    result,       \* how the operation left: the error thrown, the value returned
    parked        \* a second operation's own state while it waits at an await

vars == <<books, authors, session, pc, call, oldDocument, document, bookAuthors,
          caught, authorWrites, pre, nops, result, parked>>

\* ---- optional values (an absent argument is None) -----------------------
None == <<>>
Some(x) == <<x>>
IsDefined(o) == o # None
Value(o) == o[1]

\* ---- the session's view of the collections ------------------------------
\* session.books / session.authors hold the documents the transaction wrote
\* and did not commit yet (a function on the ids written).  A call that is
\* given the session reads its own writes; a call without it reads and
\* writes the committed collections directly.
\* ends counts the endSession calls made on the session.
NoSession == [state |-> "none", books |-> <<>>, authors |-> <<>>, ends |-> 0]

BookView(b, useSession) ==
    IF useSession /\ b \in DOMAIN session.books THEN session.books[b] ELSE books[b]

AuthorView(a, useSession) ==
    IF useSession /\ a \in DOMAIN session.authors THEN session.authors[a] ELSE authors[a]

\* write one book slot through the session
SessionWriteBook(b, slot) ==
    [session EXCEPT !.books =
        [x \in (DOMAIN session.books) \cup {b} |-> IF x = b THEN slot ELSE session.books[x]]]

\* $push {books: bookId}: appends one occurrence, always a modification
Push(bookId, refs) == [refs EXCEPT ![bookId] = @ + 1]
\* $pull {books: bookId}: removes every occurrence; no modification when absent
Pull(bookId, refs) == [refs EXCEPT ![bookId] = 0]

\* AuthorModel.updateMany({_id: {$in: ids}}, {[op]: {books: bookId}}, {session})
UpdateManyAuthors(ids, op, bookId, useSession) ==
    LET matched == Range(ids) \cap Authors
        Before(a) == AuthorView(a, useSession)
        After(a) == [Before(a) EXCEPT !.books = IF op = "$push" THEN Push(bookId, @)
                                                ELSE Pull(bookId, @)]
        modified == {a \in matched : op = "$push" \/ After(a) # Before(a)}
    IN  /\ authorWrites' = authorWrites \cup modified
        /\ IF useSession
           THEN /\ session' = [session EXCEPT !.authors =
                       [a \in (DOMAIN session.authors) \cup modified |->
                           IF a \in modified THEN After(a) ELSE session.authors[a]]]
                /\ UNCHANGED authors
           ELSE /\ authors' = [a \in Authors |-> IF a \in modified THEN After(a) ELSE authors[a]]
                /\ UNCHANGED session

\* ---- private helpers of BookRepository ----------------------------------
\* findBookAuthors: the (id, name) summaries of the author records whose _id
\* is among authorsIds, one per record, in the collection's order
RECURSIVE SummariesFrom(_, _, _)
SummariesFrom(a, ids, useSession) ==
    IF a > NumAuthors THEN <<>>
    ELSE (IF a \in ids THEN <<[id |-> a, name |-> AuthorView(a, useSession).name]>> ELSE <<>>)
         \o SummariesFrom(a + 1, ids, useSession)

findBookAuthors(authorsIds, useSession) ==
    IF ~IsDefined(authorsIds) THEN <<>>
    ELSE SummariesFrom(1, Range(Value(authorsIds)), useSession)

\* validateBookAuthors without the comparison of the list with its set
validateBookAuthors_NoDuplicateCheck(authorsIds, useSession) ==
    IF ~IsDefined(authorsIds) THEN [error |-> NoError, authors |-> <<>>]
    ELSE LET foundBookAuthors == findBookAuthors(authorsIds, useSession)
         IN  IF Cardinality(Range(Value(authorsIds))) # Len(foundBookAuthors)
             THEN [error |-> DataValidatorError({"author"}), authors |-> <<>>]
             ELSE [error |-> NoError, authors |-> foundBookAuthors]

\* validateBookAuthors without the comparison with the number of records found
validateBookAuthors_NoCountCheck(authorsIds, useSession) ==
    IF ~IsDefined(authorsIds) THEN [error |-> NoError, authors |-> <<>>]
    ELSE LET foundBookAuthors == findBookAuthors(authorsIds, useSession)
         IN  IF Len(Value(authorsIds)) # Cardinality(Range(Value(authorsIds)))
             THEN [error |-> DataValidatorError({"author"}), authors |-> <<>>]
             ELSE [error |-> NoError, authors |-> foundBookAuthors]

\* validateBookAuthors: [error, authors]; error = NoError when the list passes
validateBookAuthors(authorsIds, useSession) ==
    IF ~IsDefined(authorsIds) THEN [error |-> NoError, authors |-> <<>>]
    ELSE LET authorsIdsSet == Range(Value(authorsIds))
             hasDuplicates == Len(Value(authorsIds)) # Cardinality(authorsIdsSet)
             foundBookAuthors == findBookAuthors(authorsIds, useSession)
         IN  IF hasDuplicates \/ Len(Value(authorsIds)) # Len(foundBookAuthors)
             THEN [error |-> DataValidatorError({"author"}), authors |-> <<>>]
             ELSE [error |-> NoError, authors |-> foundBookAuthors]

\* addBookToAuthors with the guard inverted: it returns without the update
addBookToAuthors_Skip(bookId, newAuthorsIds, useSession) ==
    UNCHANGED <<authors, session, authorWrites>>

\* addBookToAuthors with an empty filter: the update matches every author
addBookToAuthors_Everyone(bookId, newAuthorsIds, useSession) ==
    IF ~IsDefined(bookId) \/ ~IsDefined(newAuthorsIds)
    THEN UNCHANGED <<authors, session, authorWrites>>
    ELSE UpdateManyAuthors([a \in Authors |-> a], "$push", Value(bookId), useSession)

addBookToAuthors(bookId, newAuthorsIds, useSession) ==
    IF ~IsDefined(bookId) \/ ~IsDefined(newAuthorsIds)
    THEN UNCHANGED <<authors, session, authorWrites>>
    ELSE UpdateManyAuthors(Value(newAuthorsIds), "$push", Value(bookId), useSession)

\* removeBookFromAuthors that returns without the update
removeBookFromAuthors_Skip(bookId, oldAuthorsIds, useSession) ==
    UNCHANGED <<authors, session, authorWrites>>

removeBookFromAuthors(bookId, oldAuthorsIds, useSession) ==
    IF ~IsDefined(oldAuthorsIds)
    THEN UNCHANGED <<authors, session, authorWrites>>
    ELSE UpdateManyAuthors(Value(oldAuthorsIds), "$pull", bookId, useSession)

\* ---- steps shared by the four operations --------------------------------
NoCall == [kind |-> "none", id |-> 0, data |-> NoData]

\* a step rejects: control goes to the operation's catch block
Throw(error) ==
    /\ pc' = "abort"
    /\ caught' = error

\* this.databaseErrorAdapter.adaptError(error): the adapter is injected; it maps
\* the repository's own NotFoundError and ValidationError to themselves and
\* every other failure to a RepositoryError
adaptError(error) ==
    IF error.name \in {"NotFoundError", "ValidationError"} THEN error
    ELSE [name |-> "RepositoryError", resourceName |-> "", id |-> 0, errors |-> {}]

\* documentToBook(document, cachedAuthors): cachedAuthors || (the stored
\* references mapped to {id: _id, name}); an array, even an empty one, is truthy
documentToBook(id, doc, cachedAuthors) ==
    [id |-> id,
     authors |-> IF IsDefined(cachedAuthors) THEN Value(cachedAuthors)
                 ELSE [i \in DOMAIN doc.authors |-> [id |-> doc.authors[i], name |-> 0]]]

NoResult == [error |-> NoError, value |-> None]

\* const session = await startSession(); session.startTransaction();
\* both stand before the try: when startTransaction throws, neither the catch
\* nor the finally block runs and the error leaves the operation as it is
Begin(kind, id, data, first) ==
    /\ pc \in {"idle", "done"}
    /\ nops < MaxOps
    /\ nops' = nops + 1
    /\ call' = [kind |-> kind, id |-> id, data |-> data]
    /\ \E fault \in BOOLEAN :
         IF fault
         THEN /\ session' = [NoSession EXCEPT !.state = "started"]
              /\ pc' = "done"
              /\ result' = [error |-> TransactionError, value |-> None]
         ELSE /\ session' = [NoSession EXCEPT !.state = "inTransaction"]
              /\ pc' = first
              /\ result' = NoResult
    /\ oldDocument' = None
    /\ document' = None
    /\ bookAuthors' = None
    /\ caught' = NoError
    /\ authorWrites' = {}
    /\ pre' = [books |-> books, authors |-> authors]
    /\ UNCHANGED <<books, authors, parked>>

\* an operation's own state (its locals and its session) before it is called
NoTask ==
    [session |-> NoSession, pc |-> "idle", call |-> NoCall, oldDocument |-> None,
     document |-> None, bookAuthors |-> None, caught |-> NoError, authorWrites |-> {},
     pre |-> [books |-> [b \in BookIds |-> NoBook],
              authors |-> [a \in Authors |-> [name |-> AuthorName(a), books |-> NoRefs]]],
     result |-> NoResult]

At(kind, step) == call.kind = kind /\ pc = step

\* const bookAuthors = await this.validateBookAuthors(data.authors, session);
Validate(next) ==
    /\ \E fault \in BOOLEAN :
         LET checked == validateBookAuthors(call.data.authors, TRUE)
         IN  IF fault /\ IsDefined(call.data.authors)
             THEN Throw(StorageError) /\ UNCHANGED bookAuthors
             ELSE IF checked.error # NoError
             THEN Throw(checked.error) /\ UNCHANGED bookAuthors
             ELSE /\ bookAuthors' = Some(checked.authors)
                  /\ pc' = next
                  /\ UNCHANGED caught
    /\ UNCHANGED <<books, authors, session, call, oldDocument, document, authorWrites, pre, nops, result, parked>>

\* the null check of update and delete with the throw left out
IsMissing_Never(found) == FALSE

\* if (!oldDocument) / if (!updatedDocument): no document came back
IsMissing(found) == ~found.exists

\* const oldDocument = await BookModel.findById(id, {_id: 0, authors: 1}, {session});
\* (update alone goes on: if (!oldDocument) throw new ResourceNotFoundError('Book', id))
FindOld(next, mustExist) ==
    /\ \E fault \in BOOLEAN :
         LET found == BookView(call.id, TRUE)
         IN  IF fault
             THEN Throw(StorageError) /\ UNCHANGED oldDocument
             ELSE IF mustExist /\ IsMissing(found)
             THEN Throw(ResourceNotFoundError("Book", call.id)) /\ UNCHANGED oldDocument
             ELSE /\ oldDocument' = (IF found.exists THEN Some(found) ELSE None)
                  /\ pc' = next
                  /\ UNCHANGED caught
    /\ UNCHANGED <<books, authors, session, call, document, bookAuthors, authorWrites, pre, nops, result, parked>>

\* oldDocument?.authors
OldAuthors == IF IsDefined(oldDocument) THEN Some(Value(oldDocument).authors) ELSE None

\* updateBookAuthors with its two calls in the other order
updateBookAuthors_AddFirst(bookId, newAuthorsIds, oldAuthorsIds, useSession) ==
    /\ pc \in {"remove", "add"}
    /\ \E fault \in BOOLEAN :
         IF fault
         THEN Throw(StorageError) /\ UNCHANGED <<authors, session, authorWrites>>
         ELSE /\ UNCHANGED caught
              /\ \/ /\ pc = "remove"
                    /\ addBookToAuthors(Some(bookId), newAuthorsIds, useSession)
                    /\ pc' = "add"
                 \/ /\ pc = "add"
                    /\ removeBookFromAuthors(bookId, oldAuthorsIds, useSession)
                    /\ pc' = "commit"
    /\ UNCHANGED <<books, call, oldDocument, document, bookAuthors, pre, nops, result, parked>>

\* updateBookAuthors: two awaited bulk updates, the removal first
updateBookAuthors(bookId, newAuthorsIds, oldAuthorsIds, useSession) ==
    /\ pc \in {"remove", "add"}
    /\ \E fault \in BOOLEAN :
         IF fault
         THEN Throw(StorageError) /\ UNCHANGED <<authors, session, authorWrites>>
         ELSE /\ UNCHANGED caught
              /\ \/ /\ pc = "remove"
                    /\ removeBookFromAuthors(bookId, oldAuthorsIds, useSession)
                    /\ pc' = "add"
                 \/ /\ pc = "add"
                    /\ addBookToAuthors(Some(bookId), newAuthorsIds, useSession)
                    /\ pc' = "commit"
    /\ UNCHANGED <<books, call, oldDocument, document, bookAuthors, pre, nops, result, parked>>

\* await session.commitTransaction(): the transaction's writes become the
\* committed documents, all at once; a failed commit applies none of them.
\* return this.documentToBook(...) follows a commit that resolved.
Commit ==
    /\ pc = "commit"
    /\ \E fault \in BOOLEAN :
         IF fault
         THEN Throw(StorageError) /\ UNCHANGED <<books, authors, session, result>>
         ELSE /\ books' = [b \in BookIds |-> BookView(b, TRUE)]
              /\ authors' = [a \in Authors |-> AuthorView(a, TRUE)]
              /\ session' = [NoSession EXCEPT !.state = "committed"]
              /\ pc' = "end"
              /\ UNCHANGED caught
              /\ result' = [error |-> NoError,
                            value |-> IF call.kind = "delete" THEN None
                                      ELSE Some(documentToBook(call.id, Value(document),
                                                               bookAuthors))]
    /\ UNCHANGED <<call, oldDocument, document, bookAuthors, authorWrites, pre, nops, parked>>

\* catch (error) { await session.abortTransaction(); throw adaptError(error) }
\* when abortTransaction rejects, its error is the one thrown and the
\* transaction stays open until the session ends
Abort ==
    /\ pc = "abort"
    /\ \E fault \in BOOLEAN :
         IF fault
         THEN /\ result' = [error |-> TransactionError, value |-> None]
              /\ UNCHANGED session
         ELSE /\ result' = [error |-> adaptError(caught), value |-> None]
              /\ session' = [NoSession EXCEPT !.state = "aborted"]
    /\ pc' = "end"
    /\ UNCHANGED <<books, authors, call, oldDocument, document, bookAuthors, caught,
                   authorWrites, pre, nops, parked>>

\* finally { await session.endSession(); }: a transaction still open is aborted
EndSession ==
    /\ pc = "end"
    /\ session' = [NoSession EXCEPT !.state = "ended", !.ends = session.ends + 1]
    /\ pc' = "done"
    /\ UNCHANGED <<books, authors, call, oldDocument, document, bookAuthors, caught,
                   authorWrites, pre, nops, result, parked>>

\* a book write through the session; the written document is kept
WriteBook(slot, next) ==
    /\ \E fault \in BOOLEAN :
         IF fault
         THEN Throw(StorageError) /\ UNCHANGED <<session, document>>
         ELSE /\ session' = SessionWriteBook(call.id, slot)
              /\ document' = Some(slot)
              /\ pc' = next
              /\ UNCHANGED caught
    /\ UNCHANGED <<books, authors, oldDocument, bookAuthors, authorWrites, pre, nops, result, parked>>

\* an absent authors field of a new document is the empty array
AuthorsOrEmpty(data) == IF IsDefined(data.authors) THEN Value(data.authors) ELSE <<>>

\* ---- create (book.ts 22-38) ----------------------------------------------
\* new BookModel(data) draws an _id no document and no reference carries
FreshIds == {b \in BookIds : ~books[b].exists /\ \A a \in Authors : authors[a].books[b] = 0}
NewId == CHOOSE b \in FreshIds : \A c \in FreshIds : b <= c

CreateBegin ==
    /\ FreshIds # {}
    /\ \E data \in CreateData : Begin("create", 0, data, "validate")

CreateValidate == At("create", "validate") /\ Validate("write")

\* call.id records document._id from here on
CreateSave ==
    /\ At("create", "write")
    /\ call' = [call EXCEPT !.id = NewId]
    /\ \E fault \in BOOLEAN :
         IF fault
         THEN Throw(StorageError) /\ UNCHANGED <<session, document>>
         ELSE /\ session' = SessionWriteBook(NewId, BookDoc(AuthorsOrEmpty(call.data)))
              /\ document' = Some(BookDoc(AuthorsOrEmpty(call.data)))
              /\ pc' = "add"
              /\ UNCHANGED caught
    /\ UNCHANGED <<books, authors, oldDocument, bookAuthors, authorWrites, pre, nops, result, parked>>

CreateAddBookToAuthors ==
    /\ At("create", "add")
    /\ \E fault \in BOOLEAN :
         IF fault
         THEN Throw(StorageError) /\ UNCHANGED <<authors, session, authorWrites>>
         ELSE /\ addBookToAuthors(Some(call.id), Some(Value(document).authors), TRUE)
              /\ pc' = "commit"
              /\ UNCHANGED caught
    /\ UNCHANGED <<books, call, oldDocument, document, bookAuthors, pre, nops, result, parked>>

\* ---- replace (book.ts 77-99) ---------------------------------------------
ReplaceBegin == \E id \in BookIds, data \in CreateData : Begin("replace", id, data, "validate")

ReplaceValidate == At("replace", "validate") /\ Validate("readOld")

ReplaceFindById == At("replace", "readOld") /\ FindOld("write", FALSE)

\* findOneAndReplace({_id: id}, data, {new: true, upsert: true, ..., session})
ReplaceFindOneAndReplace ==
    /\ At("replace", "write")
    /\ WriteBook(BookDoc(AuthorsOrEmpty(call.data)), "remove")
    /\ UNCHANGED call

\* await this.updateBookAuthors(id, updatedDocument.authors, oldDocument?.authors);
\* the session argument is not passed
ReplaceUpdateBookAuthors ==
    /\ call.kind = "replace"
    /\ updateBookAuthors(call.id, Some(Value(document).authors), OldAuthors, FALSE)

\* ---- update (book.ts 101-129) --------------------------------------------
UpdateBegin == \E id \in BookIds, data \in UpdateData : Begin("update", id, data, "readOld")

UpdateFindById == At("update", "readOld") /\ FindOld("validate", TRUE)

UpdateValidate == At("update", "validate") /\ Validate("write")

\* findByIdAndUpdate(id, data, {upsert: false, ..., returnDocument: 'after', session}):
\* the fields data carries are set, the others kept; null when no document matches
UpdateFindByIdAndUpdate ==
    /\ At("update", "write")
    /\ LET current == BookView(call.id, TRUE)
           patched == BookDoc(IF IsDefined(call.data.authors) THEN Value(call.data.authors)
                              ELSE current.authors)
       IN  IF ~IsMissing(current)
           THEN WriteBook(patched, "remove")
           ELSE /\ Throw(ResourceNotFoundError("Book", call.id))
                /\ UNCHANGED <<books, authors, session, oldDocument, document, bookAuthors,
                               authorWrites, pre, nops, result, parked>>
    /\ UNCHANGED call

\* await this.updateBookAuthors(id, updatedDocument.authors, oldDocument?.authors, session);
UpdateUpdateBookAuthors ==
    /\ call.kind = "update"
    /\ updateBookAuthors(call.id, Some(Value(document).authors), OldAuthors, TRUE)

\* ---- delete (book.ts 131-147) --------------------------------------------
DeleteBegin == \E id \in BookIds : Begin("delete", id, NoData, "write")

\* const oldDocument = await BookModel.findByIdAndDelete(id, {session});
DeleteFindByIdAndDelete ==
    /\ At("delete", "write")
    /\ \E fault \in BOOLEAN :
         LET found == BookView(call.id, TRUE)
         IN  IF fault
             THEN Throw(StorageError) /\ UNCHANGED <<session, oldDocument>>
             ELSE IF IsMissing(found)
             THEN Throw(ResourceNotFoundError("Book", call.id)) /\ UNCHANGED <<session, oldDocument>>
             ELSE /\ session' = SessionWriteBook(call.id, NoBook)
                  /\ oldDocument' = Some(found)
                  /\ pc' = "remove"
                  /\ UNCHANGED caught
    /\ UNCHANGED <<books, authors, call, document, bookAuthors, authorWrites, pre, nops, result, parked>>

\* await this.removeBookFromAuthors(id, oldDocument.authors, session);
DeleteRemoveBookFromAuthors ==
    /\ At("delete", "remove")
    /\ \E fault \in BOOLEAN :
         IF fault
         THEN Throw(StorageError) /\ UNCHANGED <<authors, session, authorWrites>>
         ELSE /\ removeBookFromAuthors(call.id, OldAuthors, TRUE)
              /\ pc' = "commit"
              /\ UNCHANGED caught
    /\ UNCHANGED <<books, call, oldDocument, document, bookAuthors, pre, nops, result, parked>>

\* ---- the repository over an empty book collection ------------------------
Init ==
    /\ books = [b \in BookIds |-> NoBook]
    /\ authors = [a \in Authors |-> [name |-> AuthorName(a), books |-> NoRefs]]
    /\ session = NoSession
    /\ pc = "idle"
    /\ call = NoCall
    /\ oldDocument = None
    /\ document = None
    /\ bookAuthors = None
    /\ caught = NoError
    /\ authorWrites = {}
    /\ pre = [books |-> books, authors |-> authors]
    /\ nops = 0
    /\ result = NoResult
    /\ parked = NoTask

Next ==
    \/ CreateBegin \/ CreateValidate \/ CreateSave \/ CreateAddBookToAuthors
    \/ ReplaceBegin \/ ReplaceValidate \/ ReplaceFindById \/ ReplaceFindOneAndReplace
    \/ ReplaceUpdateBookAuthors
    \/ UpdateBegin \/ UpdateFindById \/ UpdateValidate \/ UpdateFindByIdAndUpdate
    \/ UpdateUpdateBookAuthors
    \/ DeleteBegin \/ DeleteFindByIdAndDelete \/ DeleteRemoveBookFromAuthors
    \/ Commit \/ Abort \/ EndSession

Spec == Init /\ [][Next]_vars

\* ======================= properties =======================================
AtRest == pc \in {"idle", "done"}
Ended == pc = "done"
Succeeded == Ended /\ result.error = NoError
Failed == Ended /\ result.error # NoError

StoreUnchanged == books = pre.books /\ authors = pre.authors
NothingWritten == StoreUnchanged /\ DOMAIN session.books = {} /\ DOMAIN session.authors = {}
                  /\ authorWrites = {}

Holds(a, b) == authors[a].books[b] > 0
Lists(b, a) == books[b].exists /\ a \in Range(books[b].authors)

HasDuplicate(list) == \E i, j \in DOMAIN list : i # j /\ list[i] = list[j]
HasUnknown(list) == \E i \in DOMAIN list : list[i] \notin Authors
Rejected(ids) == IsDefined(ids) /\ (HasDuplicate(Value(ids)) \/ HasUnknown(Value(ids)))

\* C1 (referential symmetry): whenever no operation is in flight, an author
\* holds a book id exactly when that book exists and lists the author.
ReferentialSymmetry ==
    AtRest => \A b \in BookIds : \A a \in Authors : Lists(b, a) <=> Holds(a, b)

\* C2 (atomicity): an operation that ended in failure left the book collection
\* and every author's books exactly as they were when it began.
FailureRestoresStore == Failed => StoreUnchanged

\* C3 (validation failure, zero mutation): an operation called with an authors
\* list holding a duplicate or an id of no author never writes a book or an
\* author record, inside or outside its transaction, and ends in failure; and
\* no operation has written anything by the time it validates.
ValidationFailureMutatesNothing ==
    /\ (call.kind \in {"create", "replace", "update"} /\ Rejected(call.data.authors))
          => (NothingWritten /\ (Ended => Failed))
    /\ caught.name = "ValidationError" => NothingWritten
    /\ pc = "validate" => NothingWritten

ValidationFailureWitness ==
    /\ Ended /\ call.kind = "replace" /\ call.data.authors = Some(<<1, 1>>)
    /\ caught.name = "ValidationError" /\ books[call.id].exists

\* C4 (validator): the validator raises its ValidationError only for a list with
\* a duplicate or an id of no author record, and returns summaries only for the
\* other inputs: then one (id, name) summary per requested author and no others
\* (none for an absent or empty list).
ValidatorDecision ==
    /\ caught.name = "ValidationError" => Rejected(call.data.authors)
    /\ IsDefined(bookAuthors) =>
          LET found == Value(bookAuthors)
              requested == IF IsDefined(call.data.authors)
                           THEN Range(Value(call.data.authors)) ELSE {}
          IN  /\ ~Rejected(call.data.authors)
              /\ {s.id : s \in Range(found)} = requested
              /\ Len(found) = Cardinality(requested)
              /\ \A s \in Range(found) : s.id \in Authors /\ s.name = authors[s.id].name

ValidatorWitness ==
    /\ IsDefined(bookAuthors) /\ Len(Value(bookAuthors)) = 2
    /\ call.data.authors = Some(<<3, 1>>)

\* C5 (validity): every persisted book lists only existing authors, each once.
BookAuthorsValid ==
    \A b \in BookIds : books[b].exists =>
        /\ Range(books[b].authors) \subseteq Authors
        /\ ~HasDuplicate(books[b].authors)

BookAuthorsValidWitness ==
    /\ Succeeded /\ call.kind = "update" /\ Len(books[call.id].authors) = 2
    /\ pre.books[call.id].authors # books[call.id].authors

\* the author sets an operation on call.id moves between
OldSet == IF pre.books[call.id].exists THEN Range(pre.books[call.id].authors) ELSE {}
\* the authors list the request asks the book to have
RequestedAuthors ==
    IF IsDefined(call.data.authors) THEN Value(call.data.authors)
    ELSE IF call.kind = "update" THEN pre.books[call.id].authors ELSE <<>>
NewSet == Range(RequestedAuthors)

\* C6 (create round trip): a create whose authors are distinct existing authors
\* is never rejected, and when it succeeds the book is persisted with that list
\* and exactly the listed authors hold the new id.
CreateRoundTrip ==
    (Ended /\ call.kind = "create") =>
        /\ ~Rejected(call.data.authors) => caught \in {NoError, StorageError}
        /\ Succeeded =>
              /\ ~pre.books[call.id].exists
              /\ books[call.id] = BookDoc(RequestedAuthors)
              /\ \A a \in Authors : Holds(a, call.id) <=> a \in NewSet

CreateRoundTripWitness ==
    /\ Succeeded /\ call.kind = "create" /\ call.data.authors = Some(<<1, 2>>)
    /\ Holds(1, call.id) /\ Holds(2, call.id) /\ ~Holds(3, call.id)

\* C7 (delta correctness): after a successful replace or update from Old to New
\* the book carries the requested list, no author of Old \ New holds its id and
\* every author of New (New \ Old and Old \cap New alike) holds it.
DeltaCorrect ==
    (Succeeded /\ call.kind \in {"replace", "update"}) =>
        /\ books[call.id] = BookDoc(RequestedAuthors)
        /\ \A a \in OldSet \ NewSet : ~Holds(a, call.id)
        /\ \A a \in NewSet \ OldSet : Holds(a, call.id)
        /\ \A a \in OldSet \cap NewSet : Holds(a, call.id)

DeltaCorrectWitness ==
    /\ Succeeded /\ call.kind = "replace"
    /\ pre.books[call.id].authors = <<1, 2>> /\ call.data.authors = Some(<<2, 3>>)
    /\ ~Holds(1, call.id) /\ Holds(2, call.id) /\ Holds(3, call.id)

DeleteCascade ==
    (Succeeded /\ call.kind = "delete") =>
        /\ pre.books[call.id].exists /\ ~books[call.id].exists
        /\ \A b \in BookIds \ {call.id} : books[b] = pre.books[b]
        /\ \A a \in Authors :
              /\ a \in OldSet => ~Holds(a, call.id)
              /\ a \notin OldSet => authors[a] = pre.authors[a]
              /\ authors[a].name = pre.authors[a].name
              /\ \A b \in BookIds \ {call.id} : authors[a].books[b] = pre.authors[a].books[b]

DeleteCascadeWitness ==
    /\ Succeeded /\ call.kind = "delete" /\ pre.books[call.id].authors = <<1, 2>>
    /\ \E b \in BookIds \ {call.id} : Lists(b, 1) /\ Holds(1, b)
    /\ ~Holds(1, call.id) /\ ~Holds(2, call.id)

\* C10 (not found): an update or delete of an id no book carries stops at its
\* first step: it raises NotFoundError('Book', id) (or the storage error of that
\* step), validates nothing, writes no book and no author inside or outside the
\* transaction, and leaves the store as it was; NotFoundError is raised for no
\* other reason.
NotFoundHandling ==
    /\ (call.kind \in {"update", "delete"} /\ ~pre.books[call.id].exists) =>
          /\ pc \in {IF call.kind = "update" THEN "readOld" ELSE "write", "abort", "end", "done"}
          /\ NothingWritten
          /\ ~IsDefined(document) /\ ~IsDefined(bookAuthors) /\ ~IsDefined(oldDocument)
          /\ (pc \in {"abort", "end", "done"} /\ session.state # "started")
                => caught \in {ResourceNotFoundError("Book", call.id), StorageError}
          /\ Ended => Failed
    /\ caught.name = "NotFoundError" =>
          /\ call.kind \in {"update", "delete"} /\ ~pre.books[call.id].exists
          /\ caught = ResourceNotFoundError("Book", call.id)

NotFoundWitness ==
    /\ Ended /\ call.kind = "update" /\ call.id = 2
    /\ caught = ResourceNotFoundError("Book", 2)
    /\ books[1].exists /\ ~books[2].exists

\* C11 (set-semantic addition): in every state, after any sequence of
\* operations, no author's books holds the same book id more than once.
NoDuplicateRefs == \A a \in Authors : \A b \in BookIds : authors[a].books[b] <= 1

\* C12 (session release): an operation that has ended has released its session,
\* exactly once, whichever way it left.
SessionReleasedOnce == Ended => (session.state = "ended" /\ session.ends = 1)

\* find, findById, count and a read of an author record pass no session: at
\* any moment they observe the committed documents
Observed ==
    [books |-> [b \in BookIds |-> BookView(b, FALSE)],
     authors |-> [a \in Authors |-> AuthorView(a, FALSE)]]

\* C13 (reader isolation): while an operation's transaction is open a read
\* outside it observes the complete state from before the operation, none of
\* the operation's book-side or author-side writes.
ReaderSeesPreState == session.state = "inTransaction" => Observed = pre

\* C14 (transaction scoping): every author record an operation has written
\* while its transaction is open was written under the operation's session.
WritesUnderSession ==
    session.state = "inTransaction" => authorWrites \subseteq DOMAIN session.authors

\* the awaited calls of each operation's try block, in program order, then the
\* finally block and the return
Steps(kind) ==
    IF kind = "create" THEN <<"validate", "write", "add", "commit", "end", "done">>
    ELSE IF kind = "replace"
    THEN <<"validate", "readOld", "write", "remove", "add", "commit", "end", "done">>
    ELSE IF kind = "update"
    THEN <<"readOld", "validate", "write", "remove", "add", "commit", "end", "done">>
    ELSE <<"write", "remove", "commit", "end", "done">>

\* C15 (operation ordering): every step of an operation is one of: Begin, to
\* the operation's first step; a step followed by the next one of its sequence
\* (Validate, WriteEntity, SyncRelations, Commit, End); a failed step, followed
\* by Abort; Abort, followed by End.
OperationOrdering ==
    [][pc' # pc \/ nops' # nops =>
        \/ pc \in {"idle", "done"} /\ pc' = Head(Steps(call'.kind))
        \/ \E i \in 1..(Len(Steps(call.kind)) - 1) :
              /\ call'.kind = call.kind
              /\ pc = Steps(call.kind)[i] /\ pc' = Steps(call.kind)[i + 1]
              /\ caught' = caught
        \/ pc \notin {"idle", "done", "abort", "end"} /\ pc' = "abort" /\ caught' # NoError
        \/ pc = "abort" /\ pc' = "end"]_vars

\* C16 (replace upserts if absent): a replace of an id no book carries, with a
\* list of distinct existing authors, never raises NotFoundError or
\* ValidationError, and when it succeeds the book is persisted with that list
\* and exactly the listed authors hold its id.
ReplaceUpserts ==
    (call.kind = "replace" /\ ~pre.books[call.id].exists /\ ~Rejected(call.data.authors)) =>
        /\ caught \in {NoError, StorageError}
        /\ Succeeded =>
              /\ books[call.id] = BookDoc(RequestedAuthors)
              /\ \A a \in Authors : Holds(a, call.id) <=> a \in NewSet

\* C17 (validation error shape): the error the validator raises for a rejected
\* authors list is a ValidationError whose field errors have the one key
\* "authors".
ValidationErrorKeyedOnAuthors ==
    caught.name = "ValidationError" => (Rejected(call.data.authors) /\ caught.errors = {"authors"})

\* C18 (original failure propagation): an operation in which a step failed
\* leaves with the adaptation of that step's error, whatever happens while the
\* transaction is aborted and the session released.
OriginalFailurePropagated ==
    (Ended /\ caught # NoError) => result.error = adaptError(caught)

\* C19 (no retry): once a step of an operation has failed with a storage error
\* (a transaction conflict among them) no step of the operation runs again, the
\* operation goes through abort and end only, and it leaves with a
\* RepositoryError.
ConflictFailsWithoutRetry ==
    caught = StorageError =>
        /\ pc \in {"abort", "end", "done"}
        /\ pc \in {"end", "done"} => result.error.name = "RepositoryError"

\* C20 (returned aggregate matches persisted state): the author ids of the
\* ReadBook a successful create, replace or update returns are those of the
\* authors list of the book as persisted.
ReturnedMatchesPersisted ==
    (Succeeded /\ call.kind \in {"create", "replace", "update"}) =>
        /\ IsDefined(result.value)
        /\ Value(result.value).id = call.id
        /\ {s.id : s \in Range(Value(result.value).authors)} = Range(books[call.id].authors)

\* ---- two operations in flight ---------------------------------------------
\* The repository's methods are async: while one operation waits at an await
\* the event loop may run another call, under a session of its own, up to its
\* next await.  The variables above are then the operation that is running and
\* parked is the one that waits.

\* the running operation's own state
Task ==
    [session |-> session, pc |-> pc, call |-> call, oldDocument |-> oldDocument,
     document |-> document, bookAuthors |-> bookAuthors, caught |-> caught,
     authorWrites |-> authorWrites, pre |-> pre, result |-> result]

\* the running operation waits at its await and the other one goes on
Switch ==
    /\ pc # "idle"
    /\ parked' = Task
    /\ session' = parked.session
    /\ pc' = parked.pc
    /\ call' = parked.call
    /\ oldDocument' = parked.oldDocument
    /\ document' = parked.document
    /\ bookAuthors' = parked.bookAuthors
    /\ caught' = parked.caught
    /\ authorWrites' = parked.authorWrites
    /\ pre' = parked.pre
    /\ result' = parked.result
    /\ UNCHANGED <<books, authors, nops>>

\* the authors lists the two calls carry: absent, empty, one existing author
OverlapLists == {None, Some(<<>>), Some(<<1>>), Some(<<2>>)}

\* the book documents / author documents the waiting operation's open
\* transaction has written and not yet committed
ParkedBooks ==
    IF parked.session.state = "inTransaction" THEN DOMAIN parked.session.books ELSE {}
ParkedAuthors ==
    IF parked.session.state = "inTransaction" THEN DOMAIN parked.session.authors ELSE {}

\* a write under { session } to a document that another open transaction has
\* written, or that was changed since this transaction began, is refused by
\* the storage engine (write conflict): of such a step only the failure is left
WriteConflict ==
    \/ \E b \in (DOMAIN session'.books) \ (DOMAIN session.books) :
          b \in ParkedBooks \/ books[b] # pre.books[b]
    \/ \E a \in (DOMAIN session'.authors) \ (DOMAIN session.authors) :
          a \in ParkedAuthors \/ authors[a] # pre.authors[a]

\* an updateMany without a session on a document an open transaction has
\* written waits until that transaction has ended
WaitsForTransaction ==
    /\ pc \in {"remove", "add"}
    /\ \E a \in ParkedAuthors : authors'[a] # authors[a]

\* one step of the running operation, each of the two being called once; the
\* failures to start and to abort a transaction are those of Spec and are left
\* out here; a create saves when the bounded id space has an id left
Step(action) ==
    /\ At("create", "write") => FreshIds # {}
    /\ action
    /\ nops' # nops => (pc = "idle" /\ call'.data.authors \in OverlapLists)
    /\ session'.state # "started"
    /\ result'.error # TransactionError
    /\ ~WriteConflict
    /\ ~WaitsForTransaction

\* book 1 of author 1 was created before the two calls
InitConcurrent ==
    /\ books = [b \in BookIds |-> IF b = 1 THEN BookDoc(<<1>>) ELSE NoBook]
    /\ authors = [a \in Authors |->
                    [name |-> AuthorName(a),
                     books |-> [b \in BookIds |-> IF a = 1 /\ b = 1 THEN 1 ELSE 0]]]
    /\ session = NoSession
    /\ pc = "idle"
    /\ call = NoCall
    /\ oldDocument = None
    /\ document = None
    /\ bookAuthors = None
    /\ caught = NoError
    /\ authorWrites = {}
    /\ pre = [books |-> books, authors |-> authors]
    /\ nops = 0
    /\ result = NoResult
    /\ parked = [NoTask EXCEPT !.pre = [books |-> books, authors |-> authors]]

NextConcurrent ==
    \/ Step(CreateBegin) \/ Step(CreateValidate) \/ Step(CreateSave)
    \/ Step(CreateAddBookToAuthors)
    \/ Step(ReplaceBegin) \/ Step(ReplaceValidate) \/ Step(ReplaceFindById)
    \/ Step(ReplaceFindOneAndReplace) \/ Step(ReplaceUpdateBookAuthors)
    \/ Step(UpdateBegin) \/ Step(UpdateFindById) \/ Step(UpdateValidate)
    \/ Step(UpdateFindByIdAndUpdate) \/ Step(UpdateUpdateBookAuthors)
    \/ Step(DeleteBegin) \/ Step(DeleteFindByIdAndDelete)
    \/ Step(DeleteRemoveBookFromAuthors)
    \/ Step(Commit) \/ Step(Abort) \/ Step(EndSession)
    \/ Switch

SpecConcurrent == InitConcurrent /\ [][NextConcurrent]_vars

\* the store the two calls started from
Seeded ==
    [books |-> [b \in BookIds |-> IF b = 1 THEN BookDoc(<<1>>) ELSE NoBook],
     authors |-> [a \in Authors |->
                    [name |-> AuthorName(a),
                     books |-> [b \in BookIds |-> IF a = 1 /\ b = 1 THEN 1 ELSE 0]]]]

\* a committed call c run alone on store s: whether it can succeed there, and
\* the store it leaves (the book written, its id pulled from the old authors
\* and pushed to the new ones)
Applicable(c, s) ==
    IF c.kind = "create" THEN ~s.books[c.id].exists
    ELSE IF c.kind \in {"update", "delete"} THEN s.books[c.id].exists
    ELSE TRUE

Effect(c, s) ==
    LET old == IF s.books[c.id].exists THEN s.books[c.id].authors ELSE <<>>
        new == IF c.kind = "delete" THEN <<>>
               ELSE IF IsDefined(c.data.authors) THEN Value(c.data.authors)
               ELSE IF c.kind = "update" THEN old ELSE <<>>
        pulled(a) == IF a \in Range(old) THEN 0 ELSE s.authors[a].books[c.id]
    IN  [books |-> [s.books EXCEPT ![c.id] = IF c.kind = "delete" THEN NoBook ELSE BookDoc(new)],
         authors |-> [a \in Authors |->
                        [s.authors[a] EXCEPT !.books[c.id] =
                            pulled(a) + (IF a \in Range(new) THEN 1 ELSE 0)]]]

\* the stores the committed calls of a set leave when run one after another
SerialOutcomes(calls) ==
    IF calls = {} THEN {Seeded}
    ELSE {Effect(d, Effect(c, Seeded)) : <<c, d>> \in
             {<<c, d>> \in calls \X calls :
                 /\ (c # d \/ Cardinality(calls) = 1)
                 /\ Applicable(c, Seeded)
                 /\ (c # d => Applicable(d, Effect(c, Seeded)))}}

BothEnded == pc = "done" /\ parked.pc = "done"
Committed ==
    {c \in {call, parked.call} :
        \/ c = call /\ result.error = NoError
        \/ c = parked.call /\ parked.result.error = NoError}

\* C21 (concurrent mutations): once two concurrently running operations have
\* both ended, the persisted books and authors are those the committed ones
\* leave when run one after the other in some order, and an author holds a
\* book exactly when the book lists the author.
ConcurrentSerializable ==
    BothEnded =>
        /\ [books |-> books, authors |-> authors] \in SerialOutcomes(Committed)
        /\ \A b \in BookIds : \A a \in Authors : Lists(b, a) <=> Holds(a, b)

====
